---- MODULE Spec2Model ----
(***************************************************************************)
(* Model of the orchestration core of faltuai.fun-backend:                 *)
(*   - the LangGraph stock-analysis report workflow                        *)
(*     (app/services/stock_analysis_service.py),                           *)
(*   - the market-research query cache                                     *)
(*     (app/services/data_sources/cache_service.py,                        *)
(*      app/models/market_research_cache.py),                              *)
(*   - the stock-analysis cache                                            *)
(*     (app/services/database/stock_analysis_service.py),                  *)
(*   - the background task that runs a report and updates its record       *)
(*     (app/api/stock_analysis/router.py),                                 *)
(*   - the learning plan workflow and its market research aggregation      *)
(*     (app/services/learning_plan_agent.py,                               *)
(*      app/services/market_research_agent.py),                            *)
(*   - the Serper adapter and two concurrent callers of the query cache,   *)
(*   - concurrent sessions of the stock-analysis cache and concurrent      *)
(*     report runs on the service singleton.                               *)
(* Each subsystem has its own specification (SpecReport, SpecTask,         *)
(* SpecPlan, SpecCache, SpecHits, SpecAdapter, SpecRace, SpecStock,        *)
(* SpecSess, SpecRuns); the variables of the other subsystems stay         *)
(* unchanged.                                                              *)
(***************************************************************************)
EXTENDS Integers, Sequences, FiniteSets, TLC

VARIABLES
    \* ---- report workflow (one run of StockAnalysisService.run_analysis)
    pc,             \* next node of the compiled graph, or "END" / "returned"
    state,          \* the StockAnalysisState threaded through the nodes
    step,           \* number of supersteps (node executions) so far
    trace,          \* the node names executed so far, in order
    final_state,    \* run_analysis: the last chunk yielded by graph.astream
    full_draft,     \* the drafted content assemble_report_node put in its prompt
    result,         \* the dict returned by run_analysis
    \* ---- market research cache (MarketResearchCacheService)
    mrCache,        \* market_research_cache table: cache_key -> row or NoRow
    now,            \* datetime.utcnow(), in hours
    mrCall,         \* the last completed get_or_fetch call and what it did
    \* ---- stock analysis cache (StockAnalysisDatabaseService)
    stockCache,     \* stock_analysis_cache table: row key -> row or NoRow
    stockNow,       \* datetime.utcnow(), in hours
    stockCall,      \* the last completed stock-cache call and what it did
    \* ---- background task run_analysis_workflow (api/stock_analysis/router.py)
    taskPc,         \* position of the task: "start", "running", "handler", ...
    analysis,       \* the StockAnalysis record the task updates
    taskExc,        \* the exception the task's except branch caught, or None
    \* ---- learning plan workflow (LearningPlanAgent, MarketResearchAgent)
    planPc,         \* next node of the plan graph, or "raised" / "returned"
    planState,      \* the LearningPlanState threaded through the nodes
    planResult,     \* the value generate_comprehensive_plan returned
    rmPc,           \* research_market_trends: "idle", "run", "await", "returned", "raised"
    rmStarted,      \* the research calls issued so far, in order
    rmCompleted,    \* the research calls that came back, in order
    rmResults,      \* research_market_trends: the local results, by bundle key
    rmFailed,       \* the research calls that raised
    extCall,        \* the external calls in flight (target and timeout)
    \* ---- two concurrent get_or_fetch calls on one market research cache
    race,           \* per caller: position, arguments, fetched payload, return value
    lastWriter,     \* the callers whose write was committed last (none or one)
    \* ---- history of the market research cache
    hitHigh,        \* the highest hit_count the table has recorded so far
    \* ---- concurrent database sessions calling get_cached_data
    sess,           \* caller -> [pc, key, loaded, ret] of its call
    \* ---- concurrent runs of run_analysis on the service singleton
    runs,           \* run -> [pc, thread_id, state] of its call
    heap,           \* list object -> the fragments it holds
    memory_saver,   \* thread id -> the checkpoint last saved for the thread
    \* ---- history of the learning plan workflow
    design_log      \* the answers to the calls _curriculum_design_node made

reportVars == <<pc, state, step, trace, final_state, full_draft, result>>
cacheVars  == <<mrCache, now, mrCall>>
stockVars  == <<stockCache, stockNow, stockCall>>
taskVars   == <<taskPc, analysis, taskExc>>
planVars   == <<planPc, planState, planResult, rmPc, rmStarted, rmCompleted,
                rmResults, rmFailed, extCall>>
raceVars   == <<race, lastWriter>>
lateVars   == <<hitHigh, sess, runs, heap, memory_saver, design_log>>
vars       == <<reportVars, cacheVars, stockVars, taskVars, planVars, raceVars, lateVars>>

\* What each subsystem's specification leaves alone.
notReportVars == <<cacheVars, stockVars, taskVars, planVars, raceVars, lateVars>>
notCacheVars  == <<reportVars, stockVars, taskVars, planVars, raceVars, lateVars>>
notStockVars  == <<reportVars, cacheVars, taskVars, planVars, raceVars, lateVars>>
notTaskVars   == <<cacheVars, stockVars, planVars, raceVars, lateVars>>
notPlanVars   == <<reportVars, cacheVars, stockVars, taskVars, raceVars, lateVars>>
notRaceVars   == <<reportVars, stockVars, taskVars, planVars, now, mrCall, lateVars>>

None == "<None>"

\* Python dict.get(key): the value, or None when the key is absent.
Get(d, k) == IF k \in DOMAIN d THEN d[k] ELSE None

\* LangGraph merges a node's partial update shallowly into the state.
Merge(st, upd) == [f \in DOMAIN st |-> IF f \in DOMAIN upd THEN upd[f] ELSE st[f]]

(***************************************************************************)
(* Report workflow                                                         *)
(***************************************************************************)

MAX_SECTIONS == 10

recursion_limit_Plus5 == MAX_SECTIONS + 5
recursion_limit_Plus3 == MAX_SECTIONS + 3
\* run_analysis: config["recursion_limit"]
recursion_limit == MAX_SECTIONS + 4

PLAN_COMPLETE == "PLAN_COMPLETE"

\* Text is modelled as a sequence of tokens; a fragment "carries" a token
\* when the token occurs in it (Python's substring test `tok in text`).
Carries(text, tok) == \E i \in 1..Len(text) : text[i] = tok

\* What the generative backend may return for one drafting call: an ordinary
\* section, the bare marker, or a text that contains the marker.
Sections == {<<"S1">>, <<"S2">>}
MarkerOnly == <<PLAN_COMPLETE>>
MarkerEmbedded == <<"Done.", PLAN_COMPLETE>>
DraftOutputs == Sections \cup {MarkerOnly, MarkerEmbedded}

Questions == {"Q1"}

\* run_analysis: initial_state
initial_state(q) ==
    [user_question |-> q, analysis_plan |-> "", research_data |-> "",
     drafted_sections |-> <<>>, final_report |-> "",
     model_name |-> "gpt-4o-mini", error |-> ""]

NoDict == [k \in {} |-> None]

\* "\n\n".join(fragments)
RECURSIVE JoinSections_Reversed(_)
JoinSections_Reversed(frags) ==
    IF frags = <<>> THEN <<>>
    ELSE IF Len(frags) = 1 THEN frags[1]
    ELSE JoinSections_Reversed(Tail(frags)) \o <<"\n\n">> \o frags[1]
RECURSIVE JoinSections(_)
JoinSections(frags) ==
    IF frags = <<>> THEN <<>>
    ELSE IF Len(frags) = 1 THEN frags[1]
    ELSE frags[1] \o <<"\n\n">> \o JoinSections(Tail(frags))

\* [s for s in drafted_sections if s != 'PLAN_COMPLETE']
clean_drafted_sections(frags) == SelectSeq(frags, LAMBDA s : s # MarkerOnly)

\* StockAnalysisAgent.route_drafting
route_drafting_Equality(st) ==
    LET last_chunk == IF st.drafted_sections # <<>>
                      THEN st.drafted_sections[Len(st.drafted_sections)]
                      ELSE <<>>
    IN IF last_chunk = MarkerOnly THEN "assemble_report" ELSE "draft_sections"
route_drafting(st) ==
    LET last_chunk == IF st.drafted_sections # <<>>
                      THEN st.drafted_sections[Len(st.drafted_sections)]
                      ELSE <<>>
    IN IF Carries(last_chunk, PLAN_COMPLETE)
       THEN "assemble_report" ELSE "draft_sections"

\* _build_graph: the edges of the compiled graph
NextNode_SkipDraft(node, st) ==
    CASE node = "research_plan"   -> "fetch_data"
      [] node = "fetch_data"      -> "assemble_report"
      [] node = "draft_sections"  -> route_drafting(st)
      [] node = "assemble_report" -> "END"
NextNode(node, st) ==
    CASE node = "research_plan"   -> "fetch_data"
      [] node = "fetch_data"      -> "draft_sections"
      [] node = "draft_sections"  -> route_drafting(st)
      [] node = "assemble_report" -> "END"

\* One superstep of the compiled graph: the node's update is merged into the
\* state, streamed as {node: update}, and the outgoing edge picks the next node.
Superstep(node, upd) ==
    /\ pc = node
    /\ step < recursion_limit
    /\ state' = Merge(state, upd)
    /\ step' = step + 1
    /\ trace' = Append(trace, node)
    /\ final_state' = [n \in {node} |-> upd]
    /\ pc' = NextNode(node, state')
    /\ UNCHANGED result

\* StockAnalysisAgent.research_plan_node
research_plan_node ==
    /\ \E ok \in BOOLEAN :
         Superstep("research_plan",
            IF ok THEN [analysis_plan |-> "PLAN", model_name |-> "gpt-4o-mini"]
                  ELSE [error |-> "Failed to generate research plan"])
    /\ UNCHANGED full_draft

\* StockAnalysisAgent.fetch_data_node
fetch_data_node ==
    /\ \E ok \in BOOLEAN :
         Superstep("fetch_data",
            IF ok THEN [research_data |-> "DATA"]
                  ELSE [error |-> "Failed to fetch data"])
    /\ UNCHANGED full_draft

\* StockAnalysisAgent.draft_sections_node
draft_sections_node ==
    /\ \/ \E new_section \in DraftOutputs :
            Superstep("draft_sections",
               [drafted_sections |-> Append(state.drafted_sections, new_section)])
       \/ Superstep("draft_sections", [error |-> "Failed to draft section"])
    /\ UNCHANGED full_draft

\* StockAnalysisAgent.assemble_report_node
assemble_report_node ==
    /\ full_draft' = JoinSections(clean_drafted_sections(state.drafted_sections))
    /\ \E ok \in BOOLEAN :
         Superstep("assemble_report",
            IF ok THEN [final_report |-> "REPORT"]
                  ELSE [error |-> "Failed to compile final report"])

\* run_analysis, after the stream ended at END: pick the node update that
\* holds "final_report" out of the last chunk and read the result fields.
run_analysis_return ==
    /\ pc = "END"
    /\ LET picked ==
             IF \E n \in DOMAIN final_state : "final_report" \in DOMAIN final_state[n]
             THEN final_state[CHOOSE n \in DOMAIN final_state :
                                 "final_report" \in DOMAIN final_state[n]]
             ELSE final_state
       IN result' = [question       |-> Get(picked, "user_question"),
                     analysis_plan  |-> Get(picked, "analysis_plan"),
                     research_data  |-> Get(picked, "research_data"),
                     final_report   |-> Get(picked, "final_report"),
                     model          |-> Get(picked, "model_name"),
                     error          |-> Get(picked, "error")]
    /\ pc' = "returned"
    /\ UNCHANGED <<state, step, trace, final_state, full_draft>>

\* run_analysis, except branch: the graph ran recursion_limit supersteps
\* without reaching END and raised GraphRecursionError.
run_analysis_except ==
    /\ pc \in {"research_plan", "fetch_data", "draft_sections", "assemble_report"}
    /\ step >= recursion_limit
    /\ result' = [question |-> state.user_question,
                  error    |-> "Analysis workflow failed"]
    /\ pc' = "returned"
    /\ UNCHANGED <<state, step, trace, final_state, full_draft>>

ReportInit ==
    /\ pc = "research_plan"
    /\ \E q \in Questions : state = initial_state(q)
    /\ step = 0
    /\ trace = <<>>
    /\ final_state = NoDict
    /\ full_draft = <<>>
    /\ result = NoDict

ReportIdle == /\ pc = "idle" /\ state = NoDict /\ step = 0 /\ trace = <<>>
              /\ final_state = NoDict /\ full_draft = <<>> /\ result = NoDict

CacheIdle == mrCache = {} /\ now = 0 /\ mrCall = NoDict
StockIdle == stockCache = {} /\ stockNow = 0 /\ stockCall = NoDict
TaskIdle == taskPc = "idle" /\ analysis = NoDict /\ taskExc = None
RaceIdle == race = NoDict /\ lastWriter = {}
RunsIdle == runs = NoDict /\ heap = NoDict /\ memory_saver = NoDict
LateIdle == hitHigh = 0 /\ sess = NoDict /\ RunsIdle /\ design_log = <<>>
PlanIdle == /\ planPc = "idle" /\ planState = NoDict /\ planResult = NoDict
            /\ rmPc = "idle" /\ rmStarted = <<>> /\ rmCompleted = <<>>
            /\ rmResults = NoDict /\ rmFailed = {} /\ extCall = {}

ReportNext ==
    \/ research_plan_node
    \/ fetch_data_node
    \/ draft_sections_node
    \/ assemble_report_node
    \/ run_analysis_return
    \/ run_analysis_except

InitReport == ReportInit /\ CacheIdle /\ StockIdle /\ TaskIdle /\ PlanIdle /\ RaceIdle /\ LateIdle
NextReport ==
    \/ research_plan_node /\ UNCHANGED notReportVars
    \/ fetch_data_node /\ UNCHANGED notReportVars
    \/ draft_sections_node /\ UNCHANGED notReportVars
    \/ assemble_report_node /\ UNCHANGED notReportVars
    \/ run_analysis_return /\ UNCHANGED notReportVars
    \/ run_analysis_except /\ UNCHANGED notReportVars
SpecReport == InitReport /\ [][NextReport]_vars

(***************************************************************************)
(* Background task run_analysis_workflow                                   *)
(***************************************************************************)

\* AnalysisStatus
PENDING == "pending"
PROCESSING == "processing"
COMPLETED == "completed"
FAILED == "failed"

\* What a failing database update raises, as str(e).
DbError == "db error"

\* create_analysis: the record the endpoint creates before it schedules the task
new_analysis == [analysis_status |-> PENDING, error_message |-> None,
                 analysis_plan |-> None, research_data |-> None,
                 final_report |-> None, model_name |-> None]

\* update_analysis(**kwargs): setattr for every given field
update_analysis(rec, kwargs) == Merge(rec, kwargs)

\* run_analysis_workflow: `if result.get("error")` (None and "" are falsy)
ErrorReturned_Never(res) == FALSE
ErrorReturned(res) == Get(res, "error") \notin {None, ""}

\* One awaited update_analysis inside the task: it commits and the task goes
\* on to `next`, or it rolls back and re-raises and the task goes to `onRaise`.
TaskUpdate(kwargs, next, onRaise) ==
    \/ /\ analysis' = update_analysis(analysis, kwargs)
       /\ taskPc' = next
       /\ UNCHANGED taskExc
    \/ /\ taskPc' = onRaise
       /\ taskExc' = DbError
       /\ UNCHANGED analysis

\* run_analysis_workflow, lines 107-112: mark the record as processing
task_processing ==
    /\ taskPc = "start"
    /\ TaskUpdate([analysis_status |-> PROCESSING], "running", "handler")
    /\ UNCHANGED reportVars

\* run_analysis_workflow, lines 121-144: run_analysis has returned `result`
task_result ==
    /\ taskPc = "running"
    /\ pc = "returned"
    /\ IF ErrorReturned(result)
       THEN TaskUpdate([analysis_status |-> FAILED, error_message |-> result.error],
                       "done", "handler")
       ELSE TaskUpdate([analysis_plan  |-> Get(result, "analysis_plan"),
                        research_data  |-> Get(result, "research_data"),
                        final_report   |-> Get(result, "final_report"),
                        model_name     |-> Get(result, "model"),
                        analysis_status |-> COMPLETED],
                       "done", "handler")
    /\ UNCHANGED reportVars

\* run_analysis_workflow, lines 146-153: the except branch; when its own update
\* raises, the exception leaves the task.
task_except ==
    /\ taskPc = "handler"
    /\ TaskUpdate([analysis_status |-> FAILED, error_message |-> taskExc],
                  "done", "raised")
    /\ UNCHANGED reportVars

TaskInit == taskPc = "start" /\ analysis = new_analysis /\ taskExc = None

\* The awaited run_analysis call runs while the task is at "running".
InitTask == ReportInit /\ CacheIdle /\ StockIdle /\ TaskInit /\ PlanIdle /\ RaceIdle /\ LateIdle
NextTask ==
    \/ task_processing /\ UNCHANGED notTaskVars
    \/ taskPc = "running" /\ research_plan_node /\ UNCHANGED notReportVars
    \/ taskPc = "running" /\ fetch_data_node /\ UNCHANGED notReportVars
    \/ taskPc = "running" /\ draft_sections_node /\ UNCHANGED notReportVars
    \/ taskPc = "running" /\ assemble_report_node /\ UNCHANGED notReportVars
    \/ taskPc = "running" /\ run_analysis_return /\ UNCHANGED notReportVars
    \/ taskPc = "running" /\ run_analysis_except /\ UNCHANGED notReportVars
    \/ task_result /\ UNCHANGED notTaskVars
    \/ task_except /\ UNCHANGED notTaskVars
SpecTask == InitTask /\ [][NextTask]_vars

(***************************************************************************)
(* Learning plan workflow and its market research aggregation              *)
(***************************************************************************)

\* d[k] = v on a Python dict
Put(d, k, v) == [x \in DOMAIN d \cup {k} |-> IF x = k THEN v ELSE d[x]]

\* research_market_trends: the helpers it awaits, in the order of lines 33-50,
\* each named by the key its result gets in the returned bundle. The first
\* five are the source calls, the sixth synthesises their results.
ResearchCalls == <<"market_demand", "skill_gaps", "career_paths",
                   "learning_resources", "industry_developments", "market_insights">>
SourceKeys == {"market_demand", "skill_gaps", "career_paths",
               "learning_resources", "industry_developments"}

\* LLMService.call_async builds ChatOpenAI(model_name, openai_api_key,
\* temperature, max_tokens): the call is given no timeout.
llm_call == [target |-> "ChatOpenAI", timeout |-> None]

\* What generate_structured_response may parse out of the backend's answer.
ResearchValues(key) ==
    IF key = "market_insights"
    THEN {[emerging_technologies |-> <<"tech">>], NoDict}
    ELSE {[key_insights |-> <<"insight">>]}

\* research_market_trends, lines 33-48: the next helper issues its backend
\* call; the coroutine is suspended on it until it comes back.
rm_issue_call ==
    /\ planPc = "research_market"
    /\ rmPc \in {"idle", "run"}
    /\ Len(rmStarted) < Len(ResearchCalls)
    /\ rmStarted' = Append(rmStarted, ResearchCalls[Len(rmStarted) + 1])
    /\ extCall' = extCall \cup {llm_call}
    /\ rmPc' = "await"
    /\ UNCHANGED <<planPc, planState, planResult, rmCompleted, rmResults, rmFailed>>

\* The awaited helper comes back: with the parsed answer, which is bound to
\* its local variable, or with the exception of call_async /
\* generate_structured_response, which leaves research_market_trends.
rm_call_returns ==
    /\ rmPc = "await"
    /\ LET key == rmStarted[Len(rmStarted)]
       IN \/ \E v \in ResearchValues(key) :
               /\ rmResults' = Put(rmResults, key, v)
               /\ rmCompleted' = Append(rmCompleted, key)
               /\ rmPc' = IF Len(rmStarted) = Len(ResearchCalls)
                          THEN "returned" ELSE "run"
               /\ UNCHANGED rmFailed
          \/ /\ rmFailed' = rmFailed \cup {key}
             /\ rmPc' = "raised"
             /\ UNCHANGED <<rmResults, rmCompleted>>
    /\ extCall' = extCall \ {llm_call}
    /\ UNCHANGED <<planPc, planState, planResult, rmStarted>>

\* research_market_trends, lines 52-61: the returned bundle
research_bundle(results) ==
    Put(Put(results, "research_timestamp", "utcnow"),
        "research_version", "fresh_2025_q4")

\* Python values of a JSON scalar that may stand for a number of weeks: an
\* int, a float (json.loads gives one for a number with a fraction), a str.
\* A number is held as its count of half weeks, so that 4.5 is PyFloat(9).
PyInt(n) == [type |-> "int", halves |-> 2 * n]
PyFloat(h) == [type |-> "float", halves |-> h]
PyStr == [type |-> "str", halves |-> 0]

\* a + b: a float as soon as one operand is a float
py_add(a, b) ==
    [type |-> IF "float" \in {a.type, b.type} THEN "float" ELSE "int",
     halves |-> a.halves + b.halves]

\* max(a, b) and min(a, b) return one of their arguments, the first on a tie
py_max(a, b) == IF b.halves > a.halves THEN b ELSE a
py_min(a, b) == IF b.halves < a.halves THEN b ELSE a

\* generate_comprehensive_plan: initial_state (the fields the nodes write)
initial_plan_state ==
    [market_research |-> NoDict, trending_technologies |-> <<>>,
     timeline_weeks |-> PyInt(12), priority_skills |-> <<>>,
     learning_modules |-> <<>>, project_ideas |-> <<>>, resources |-> <<>>,
     learning_plan |-> NoDict, error |-> ""]

\* _build_workflow: the edges of the plan graph
NextPlanNode_SkipTimeline(node) ==
    CASE node = "research_market"   -> "analyze_gaps"
      [] node = "analyze_gaps"      -> "define_objectives"
      [] node = "define_objectives" -> "design_curriculum"
      [] node = "design_curriculum" -> "curate_resources"
      [] node = "curate_resources"  -> "generate_projects"
      [] node = "generate_projects" -> "assemble_plan"
      [] node = "plan_timeline"     -> "assemble_plan"
      [] node = "assemble_plan"     -> "END"
NextPlanNode(node) ==
    CASE node = "research_market"   -> "analyze_gaps"
      [] node = "analyze_gaps"      -> "define_objectives"
      [] node = "define_objectives" -> "design_curriculum"
      [] node = "design_curriculum" -> "curate_resources"
      [] node = "curate_resources"  -> "generate_projects"
      [] node = "generate_projects" -> "plan_timeline"
      [] node = "plan_timeline"     -> "assemble_plan"
      [] node = "assemble_plan"     -> "END"

\* A node returns the state it modified, or raises.
PlanStep(node, newState) ==
    /\ planPc = node
    /\ planState' = newState
    /\ planPc' = NextPlanNode(node)
    /\ UNCHANGED <<planResult, rmPc, rmStarted, rmCompleted, rmResults, rmFailed, extCall>>
PlanRaise(node) ==
    /\ planPc = node
    /\ planPc' = "raised"
    /\ UNCHANGED <<planState, planResult, rmPc, rmStarted, rmCompleted, rmResults,
                   rmFailed, extCall>>

\* LearningPlanAgent._market_research_node, once research_market_trends has
\* returned or raised.
market_research_node ==
    /\ rmPc \in {"returned", "raised"}
    /\ IF rmPc = "returned"
       THEN LET research_result == research_bundle(rmResults)
                market_insights == research_result["market_insights"]
            IN PlanStep("research_market",
                 [planState EXCEPT
                    !.market_research = research_result,
                    !.trending_technologies =
                        IF "emerging_technologies" \in DOMAIN market_insights
                        THEN market_insights.emerging_technologies ELSE <<>>])
       ELSE PlanStep("research_market",
                 [planState EXCEPT !.error = "Market research failed",
                                   !.market_research = NoDict,
                                   !.trending_technologies = <<>>])

\* LearningPlanAgent._skill_gap_analysis_node: the backend's critical gaps, or
\* on any failure the user's weaknesses.
skill_gap_analysis_node ==
    \E skills \in {<<"critical gap">>, <<"weakness">>} :
        PlanStep("analyze_gaps", [planState EXCEPT !.priority_skills = skills])

\* The objectives the backend may answer with. An objective is a JSON object
\* whose "estimated_weeks", when present, is whatever JSON value the backend
\* wrote: an integer, a number with a fraction, a string.
NoEstimate == {}
Objective(estimated_weeks) == [estimated_weeks |-> {estimated_weeks}]
ObjectiveAnswers ==
    { <<>>,
      <<[estimated_weeks |-> NoEstimate], Objective(PyInt(3))>>,
      <<Objective(PyInt(4)), Objective(PyInt(6))>>,
      <<Objective(PyInt(10)), Objective(PyInt(10))>>,
      <<Objective(PyFloat(9)), Objective(PyInt(4))>>,
      <<Objective(PyInt(4)), Objective(PyStr)>> }

\* obj.get('estimated_weeks', 2)
estimated_weeks_of(obj) ==
    IF obj.estimated_weeks = NoEstimate THEN PyInt(2)
    ELSE CHOOSE v \in obj.estimated_weeks : TRUE

\* sum(obj.get('estimated_weeks', 2) for obj in objectives), starting from 0
RECURSIVE sum_estimated_weeks(_)
sum_estimated_weeks(objectives) ==
    IF objectives = <<>> THEN PyInt(0)
    ELSE py_add(sum_estimated_weeks(SubSeq(objectives, 1, Len(objectives) - 1)),
                estimated_weeks_of(objectives[Len(objectives)]))

\* int + str raises TypeError
sum_raises(objectives) ==
    \E i \in 1..Len(objectives) : estimated_weeks_of(objectives[i]).type = "str"

\* LearningPlanAgent._learning_objectives_node: the sum of the estimated weeks
\* clamped by min(max(total_weeks, 8), 16); 12 when the call or the sum raised.
learning_objectives_node ==
    \/ PlanStep("define_objectives", [planState EXCEPT !.timeline_weeks = PyInt(12)])
    \/ \E objectives \in ObjectiveAnswers :
         PlanStep("define_objectives",
            [planState EXCEPT !.timeline_weeks =
                IF sum_raises(objectives) THEN PyInt(12)
                ELSE py_min(py_max(sum_estimated_weeks(objectives), PyInt(8)),
                            PyInt(16))])

\* The modules the backend may answer with: a well-formed module, a module
\* whose "topics" list is empty, and an entry that is a string, not an object.
GoodModule == [kind |-> "dict", title |-> "M1", topics |-> <<"t1">>, weekly_breakdown |-> <<>>]
NoTopicsModule == [kind |-> "dict", title |-> "M2", topics |-> <<>>, weekly_breakdown |-> <<>>]
StrModule == [kind |-> "str", title |-> "", topics |-> <<>>, weekly_breakdown |-> <<>>]

\* What one generate_structured_response call of the curriculum node does:
\* it raises (backend error, invalid JSON), or answers with a modules list.
LLMRaised == [raised |-> TRUE, modules |-> <<>>]
Response(modules) == [raised |-> FALSE, modules |-> modules]
DesignResponses ==
    {LLMRaised} \cup
    {Response(modules) : modules \in {<<>>, <<GoodModule>>, <<NoTopicsModule>>, <<StrModule>>}}

max_retries_Four == 3 + 1
max_retries == 3

\* The retry loop of _curriculum_design_node from `attempt` on, given the
\* answers the calls would get: the learning_modules it leaves in the state
\* and the answers of the calls it made.
RECURSIVE design_attempts(_, _, _, _)
design_attempts(responses, attempt, learning_modules, log) ==
    IF attempt >= max_retries
    THEN [learning_modules |-> learning_modules, log |-> log]
    ELSE LET response == responses[attempt + 1]
             made     == Append(log, response)
         IN IF response.raised
            THEN design_attempts(responses, attempt + 1,
                    IF attempt = max_retries - 1 THEN <<>> ELSE learning_modules, made)
            ELSE IF response.modules # <<>>
                 THEN [learning_modules |-> response.modules, log |-> made]
                 ELSE design_attempts(responses, attempt + 1, learning_modules, made)

\* LearningPlanAgent._curriculum_design_node
curriculum_design_node ==
    /\ \E responses \in [1..(max_retries + 1) -> DesignResponses] :
         LET out == design_attempts(responses, 0, planState.learning_modules, <<>>)
         IN /\ PlanStep("design_curriculum",
                        [planState EXCEPT !.learning_modules = out.learning_modules])
            /\ design_log' = out.log
    /\ UNCHANGED <<hitHigh, sess, runs, heap, memory_saver>>

\* LearningPlanAgent._resource_curation_node: building the prompt calls
\* module.get outside the try, which raises on an entry that is not a dict.
resource_curation_node ==
    IF \E i \in 1..Len(planState.learning_modules) :
           planState.learning_modules[i].kind # "dict"
    THEN PlanRaise("curate_resources")
    ELSE \E all_resources \in IF planState.learning_modules = <<>>
                              THEN {<<>>} ELSE {<<>>, <<"resource">>} :
            PlanStep("curate_resources", [planState EXCEPT !.resources = all_resources])

\* LearningPlanAgent._project_generation_node: the backend's projects (entries
\* that are objects or strings), or none on failure.
project_generation_node ==
    \E projects \in {<<>>, <<[kind |-> "dict"]>>, <<[kind |-> "str"]>>} :
        PlanStep("generate_projects", [planState EXCEPT !.project_ideas = projects])

\* LearningPlanAgent._timeline_planning_node: no try; the theme of week 1 reads
\* module.get('topics', [''])[0], an IndexError on an empty topics list.
timeline_planning_node ==
    IF \E i \in 1..Len(planState.learning_modules) :
           /\ planState.learning_modules[i].weekly_breakdown = <<>>
           /\ planState.learning_modules[i].topics = <<>>
    THEN PlanRaise("plan_timeline")
    ELSE PlanStep("plan_timeline",
            [planState EXCEPT !.learning_modules =
                [i \in 1..Len(@) |->
                    IF @[i].weekly_breakdown = <<>>
                    THEN [@[i] EXCEPT !.weekly_breakdown = <<"week 1", "week 2">>]
                    ELSE @[i]]])

\* LearningPlanAgent._final_assembly_node: proj.get on an entry that is not a
\* dict raises inside the try.
final_assembly_node ==
    IF \E i \in 1..Len(planState.project_ideas) : planState.project_ideas[i].kind # "dict"
    THEN PlanStep("assemble_plan",
            [planState EXCEPT !.error = "Final assembly failed",
                              !.learning_plan = NoDict])
    ELSE PlanStep("assemble_plan",
            [planState EXCEPT !.learning_plan =
                [timeline_weeks   |-> planState.timeline_weeks,
                 learning_modules |-> planState.learning_modules,
                 priority_skills  |-> planState.priority_skills,
                 project_ideas    |-> planState.project_ideas,
                 market_trends    |->
                     LET research == planState.market_research
                     IN IF /\ "market_insights" \in DOMAIN research
                           /\ "emerging_technologies" \in DOMAIN research["market_insights"]
                        THEN research["market_insights"].emerging_technologies
                        ELSE <<>>,
                 learning_resources |-> planState.resources,
                 market_research_insights |-> planState.market_research]])

\* LearningPlanAgent._get_fallback_plan
fallback_plan ==
    [timeline_weeks |-> PyInt(12), learning_modules |-> <<>>,
     priority_skills |-> <<"Core concepts", "Best practices", "Real-world applications">>,
     project_ideas |-> <<>>, market_trends |-> <<>>, learning_resources |-> <<>>]

\* generate_comprehensive_plan, lines 677-684: ainvoke returned the final state
generate_comprehensive_plan_return ==
    /\ planPc = "END"
    /\ planResult' = Get(planState, "learning_plan")
    /\ planPc' = "returned"
    /\ UNCHANGED <<planState, rmPc, rmStarted, rmCompleted, rmResults, rmFailed, extCall>>

\* generate_comprehensive_plan, lines 686-688: a node raised out of ainvoke
generate_comprehensive_plan_except ==
    /\ planPc = "raised"
    /\ planResult' = fallback_plan
    /\ planPc' = "returned"
    /\ UNCHANGED <<planState, rmPc, rmStarted, rmCompleted, rmResults, rmFailed, extCall>>

PlanInit ==
    /\ planPc = "research_market" /\ planState = initial_plan_state
    /\ planResult = NoDict
    /\ rmPc = "idle" /\ rmStarted = <<>> /\ rmCompleted = <<>>
    /\ rmResults = NoDict /\ rmFailed = {} /\ extCall = {}

InitPlan == ReportIdle /\ CacheIdle /\ StockIdle /\ TaskIdle /\ PlanInit /\ RaceIdle /\ LateIdle
NextPlan ==
    \/ rm_issue_call /\ UNCHANGED notPlanVars
    \/ rm_call_returns /\ UNCHANGED notPlanVars
    \/ market_research_node /\ UNCHANGED notPlanVars
    \/ skill_gap_analysis_node /\ UNCHANGED notPlanVars
    \/ learning_objectives_node /\ UNCHANGED notPlanVars
    \/ curriculum_design_node
          /\ UNCHANGED <<reportVars, cacheVars, stockVars, taskVars, raceVars>>
    \/ resource_curation_node /\ UNCHANGED notPlanVars
    \/ project_generation_node /\ UNCHANGED notPlanVars
    \/ timeline_planning_node /\ UNCHANGED notPlanVars
    \/ final_assembly_node /\ UNCHANGED notPlanVars
    \/ generate_comprehensive_plan_return /\ UNCHANGED notPlanVars
    \/ generate_comprehensive_plan_except /\ UNCHANGED notPlanVars
SpecPlan == InitPlan /\ [][NextPlan]_vars

(***************************************************************************)
(* Market research query cache                                             *)
(***************************************************************************)

MaxTime == 3
MaxHits == 2

Sources == {"serper", "github"}

\* JSON scalars a query parameter can hold: the string "10" and the number 10
\* are different values.
StrV(t) == [type |-> "str", text |-> t]
IntV(t) == [type |-> "int", text |-> t]

\* **kwargs as the caller constructed it: (key, value) items in insertion order.
Item(k, v) == [k |-> k, v |-> v]
ParamInputs ==
    { << Item("q", StrV("x")), Item("n", IntV("10")) >>,
      << Item("n", IntV("10")), Item("q", StrV("x")) >>,
      << Item("q", StrV("y")), Item("n", IntV("10")) >>,
      << Item("n", StrV("10")), Item("q", StrV("x")) >> }

\* The source and the parameter sets the calls of the cache specification use:
\* one logical query, constructed in either key order.
CallSources == {"serper"}
CallParams ==
    { << Item("q", StrV("x")), Item("n", IntV("10")) >>,
      << Item("n", IntV("10")), Item("q", StrV("x")) >> }

\* Two constructions denote the same mapping.
SameMapping(p1, p2) ==
    {p1[i] : i \in 1..Len(p1)} = {p2[i] : i \in 1..Len(p2)}

\* Python's ordering of the parameter names used here ("n" < "q").
KeyRank(k) == CASE k = "n" -> 1 [] k = "q" -> 2

\* sorted(items) by key, as json.dumps(sort_keys=True) orders a dict.
RECURSIVE InsertByKey(_, _)
InsertByKey(item, sorted) ==
    IF sorted = <<>> THEN <<item>>
    ELSE IF KeyRank(item.k) <= KeyRank(Head(sorted).k)
         THEN <<item>> \o sorted
         ELSE <<Head(sorted)>> \o InsertByKey(item, Tail(sorted))
RECURSIVE SortByKey(_)
SortByKey(items) ==
    IF items = <<>> THEN <<>> ELSE InsertByKey(Head(items), SortByKey(Tail(items)))

\* json.dumps of a scalar: strings are quoted, numbers are not.
DumpValue(v) == IF v.type = "str" THEN <<"\"", v.text, "\"">> ELSE <<v.text>>
RECURSIVE DumpItems(_)
DumpItems(items) ==
    IF items = <<>> THEN <<>>
    ELSE <<"\"", Head(items).k, "\"", ": ">> \o DumpValue(Head(items).v)
         \o (IF Len(items) > 1 THEN <<", ">> ELSE <<>>) \o DumpItems(Tail(items))
\* json.dumps(kwargs, sort_keys=True)
normalized_Unsorted(kwargs) == <<"{">> \o DumpItems(kwargs) \o <<"}">>
normalized(kwargs) == <<"{">> \o DumpItems(SortByKey(kwargs)) \o <<"}">>

\* f"{source}:{normalized}"
key_string(source, kwargs) == <<source, ":">> \o normalized(kwargs)

\* hashlib.sha256(...).hexdigest(), taken as collision free.
sha256(text) == [sha256 |-> text]

\* MarketResearchCache.generate_cache_key
generate_cache_key(source, kwargs) == sha256(key_string(source, kwargs))

\* MarketResearchCache.get_expiry_time
get_expiry_time_NoTTL(t, hours) == t
get_expiry_time(t, hours) == t + hours

\* Payloads (JSON objects). NonePayload stands for Python's None.
NonePayload == [none |-> TRUE]
EmptyPayload == [empty |-> TRUE]
DataA == [organic |-> <<"r1">>]
DataB == [organic |-> <<"r2">>]
\* SerperSearchAgent.search: what it returns, instead of raising, when the
\* API key is missing, the status is not 200 or the transport fails.
ErrorPayload == [organic |-> <<>>, error |-> "API error"]
IsErrorPayload(p) == "error" \in DOMAIN p

\* Python truthiness of a payload: None and {} are falsy.
Truthy(p) == p # NonePayload /\ p # EmptyPayload

\* The fetch functions get_or_fetch is given, and what one call of each can
\* do: a generic fetch function returns a payload or raises; the Serper
\* adapter's search never raises and reports a failure as an error payload.
FetchFunctions == {"fetch_fn", "serper_search"}
FetchOutcomes(fn) ==
    IF fn = "serper_search"
    THEN { [raised |-> FALSE, failed |-> FALSE, data |-> DataA],
           [raised |-> FALSE, failed |-> TRUE,  data |-> ErrorPayload] }
    ELSE { [raised |-> TRUE,  failed |-> TRUE,  data |-> NonePayload],
           [raised |-> FALSE, failed |-> FALSE, data |-> DataA],
           [raised |-> FALSE, failed |-> FALSE, data |-> DataB],
           [raised |-> FALSE, failed |-> FALSE, data |-> EmptyPayload] }

CacheHours == {1, 2}

NoRow == [absent |-> TRUE]

\* db.query(MarketResearchCache).filter(cache_key == key).first()
RowOf(cache, key) ==
    IF \E r \in cache : r.cache_key = key
    THEN CHOOSE r \in cache : r.cache_key = key
    ELSE NoRow

\* MarketResearchCacheService._get_from_cache
get_from_cache(cache, key, t) ==
    IF \E r \in cache : r.cache_key = key /\ r.expires_at > t
    THEN (CHOOSE r \in cache : r.cache_key = key /\ r.expires_at > t).response_data
    ELSE NonePayload

\* MarketResearchCacheService._increment_hit_count
increment_hit_count(cache, key, t) ==
    {IF r.cache_key = key
     THEN [r EXCEPT !.hit_count = @ + 1, !.last_accessed_at = t]
     ELSE r : r \in cache}

\* MarketResearchCacheService._store_in_cache
store_in_cache(cache, key, source, kwargs, data, hours, t) ==
    IF \E r \in cache : r.cache_key = key
    THEN {IF r.cache_key = key
          THEN [r EXCEPT !.response_data = data,
                         !.expires_at = get_expiry_time(t, hours),
                         !.last_accessed_at = t]
          ELSE r : r \in cache}
    ELSE cache \cup {[cache_key |-> key, source |-> source, query_params |-> kwargs,
                      response_data |-> data,
                      expires_at |-> get_expiry_time(t, hours),
                      hit_count |-> 0, last_accessed_at |-> t]}

\* MarketResearchCacheService.get_or_fetch, one whole call. mrCall records the
\* call: its arguments, the row of its key before and after it, whether the
\* fetch function was invoked and failed, and the value returned.
get_or_fetch(source, fn, cache_hours, kwargs) ==
    LET cache_key   == generate_cache_key(source, kwargs)
        cached_data == get_from_cache(mrCache, cache_key, now)
        call(invoked, failed, ret, cache2) ==
            [source |-> source, kwargs |-> kwargs, cache_key |-> cache_key,
             cache_hours |-> cache_hours,
             at |-> now, before |-> RowOf(mrCache, cache_key),
             after |-> RowOf(cache2, cache_key),
             fetch_invoked |-> invoked, fetch_failed |-> failed, ret |-> ret]
    IN IF Truthy(cached_data)
       THEN /\ RowOf(mrCache, cache_key).hit_count < MaxHits
            /\ mrCache' = increment_hit_count(mrCache, cache_key, now)
            /\ mrCall' = call(FALSE, FALSE, cached_data, mrCache')
       ELSE \E out \in FetchOutcomes(fn) :
              IF out.raised
              THEN /\ mrCache' = mrCache
                   /\ mrCall' = call(TRUE, TRUE, EmptyPayload, mrCache')
              ELSE /\ mrCache' = store_in_cache(mrCache, cache_key, source, kwargs,
                                                out.data, cache_hours, now)
                   /\ mrCall' = call(TRUE, out.failed, out.data, mrCache')

GetOrFetch ==
    /\ \E source \in CallSources, fn \in FetchFunctions,
          cache_hours \in CacheHours, kwargs \in CallParams :
         get_or_fetch(source, fn, cache_hours, kwargs)
    /\ UNCHANGED now

\* MarketResearchCacheService.cleanup_expired_cache
cleanup_expired_cache ==
    /\ mrCache' = {r \in mrCache : ~(r.expires_at < now)}
    /\ mrCache' # mrCache
    /\ UNCHANGED <<now, mrCall>>

\* datetime.utcnow() advances.
CacheTick ==
    /\ now < MaxTime
    /\ now' = now + 1
    /\ UNCHANGED <<mrCache, mrCall>>

CacheInit == mrCache = {} /\ now = 0 /\ mrCall = NoDict

InitCache == ReportIdle /\ CacheInit /\ StockIdle /\ TaskIdle /\ PlanIdle /\ RaceIdle /\ LateIdle
NextCache ==
    \/ GetOrFetch /\ UNCHANGED notCacheVars
    \/ cleanup_expired_cache /\ UNCHANGED notCacheVars
    \/ CacheTick /\ UNCHANGED notCacheVars
SpecCache == InitCache /\ [][NextCache]_vars

\* The cache service with the history of its hit counters: after every
\* operation hitHigh is the highest hit_count seen in the table so far.
HighestHitCount(cache, high) ==
    IF \E r \in cache : r.hit_count > high
    THEN CHOOSE h \in {r.hit_count : r \in cache} :
             \A r \in cache : r.hit_count <= h
    ELSE high
notHitsVars == <<reportVars, stockVars, taskVars, planVars, raceVars, sess, runs, heap, memory_saver,
                design_log>>
NextHits ==
    \/ GetOrFetch /\ hitHigh' = HighestHitCount(mrCache', hitHigh)
          /\ UNCHANGED notHitsVars
    \/ cleanup_expired_cache /\ hitHigh' = HighestHitCount(mrCache', hitHigh)
          /\ UNCHANGED notHitsVars
    \/ CacheTick /\ hitHigh' = HighestHitCount(mrCache', hitHigh)
          /\ UNCHANGED notHitsVars
SpecHits == InitCache /\ [][NextHits]_vars

\* SerperSearchAgent.search called as the adapter is written: it builds the
\* payload and posts it to the provider; the cache service is not involved.
\* mrCall records the call like a get_or_fetch call, with the cache key its
\* query would have and the row of that key at the time of the call.
search(kwargs) ==
    LET cache_key == generate_cache_key("serper", kwargs)
    IN \E out \in FetchOutcomes("serper_search") :
         /\ mrCall' = [source |-> "serper", kwargs |-> kwargs, cache_key |-> cache_key,
                       at |-> now, before |-> RowOf(mrCache, cache_key),
                       after |-> RowOf(mrCache, cache_key),
                       fetch_invoked |-> TRUE, fetch_failed |-> out.failed,
                       ret |-> out.data]
         /\ UNCHANGED <<mrCache, now>>

SerperSearch == \E kwargs \in CallParams : search(kwargs)

\* The cache service together with the adapter it is meant to front.
NextAdapter ==
    \/ GetOrFetch /\ UNCHANGED notCacheVars
    \/ SerperSearch /\ UNCHANGED notCacheVars
    \/ cleanup_expired_cache /\ UNCHANGED notCacheVars
    \/ CacheTick /\ UNCHANGED notCacheVars
SpecAdapter == InitCache /\ [][NextAdapter]_vars

(***************************************************************************)
(* Two concurrent get_or_fetch calls for one key. Each caller has its own  *)
(* service object and database session; a call is suspended at             *)
(* `await fetch_function(...)`, and the statements _store_in_cache sends   *)
(* to the database (the SELECT of the existing row, then the flush and     *)
(* COMMIT) interleave with those of the other session.                     *)
(***************************************************************************)

Callers == {"A", "B"}

\* The table's row of `key` for a session that checks whether one exists.
row_exists(cache, key) == RowOf(cache, key) # NoRow

\* MarketResearchCache.cache_key is unique=True: an INSERT of a key that is
\* already in the table fails with an IntegrityError.
unique_violation_Never(cache, key) == FALSE
unique_violation(cache, key) == row_exists(cache, key)

\* get_or_fetch, lines 44-55: key, lookup, and on a hit the hit count
race_lookup(c) ==
    /\ race[c].pc = "start"
    /\ LET cache_key   == generate_cache_key("serper", race[c].kwargs)
           cached_data == get_from_cache(mrCache, cache_key, now)
       IN IF Truthy(cached_data)
          THEN /\ mrCache' = increment_hit_count(mrCache, cache_key, now)
               /\ race' = [race EXCEPT ![c].pc = "done", ![c].ret = cached_data]
          ELSE /\ race' = [race EXCEPT ![c].pc = "fetching"]
               /\ UNCHANGED mrCache
    /\ UNCHANGED lastWriter

\* get_or_fetch, lines 57-58 and 71-74: the awaited fetch function comes back
\* with a payload, or raises and the call returns {}.
race_fetch_returns(c) ==
    /\ race[c].pc = "fetching"
    /\ \E out \in FetchOutcomes("fetch_fn") :
         IF out.raised
         THEN race' = [race EXCEPT ![c].pc = "done", ![c].ret = EmptyPayload]
         ELSE race' = [race EXCEPT ![c].pc = "fetched", ![c].fresh_data = out.data,
                                   ![c].fetched = TRUE]
    /\ UNCHANGED <<mrCache, lastWriter>>

\* _store_in_cache, lines 105-107: the SELECT of the existing row
race_store_select(c) ==
    /\ race[c].pc = "fetched"
    /\ race' = [race EXCEPT
                  ![c].pc = "selected",
                  ![c].existing =
                      row_exists(mrCache, generate_cache_key("serper", race[c].kwargs))]
    /\ UNCHANGED <<mrCache, lastWriter>>

\* _store_in_cache, lines 109-134, and get_or_fetch line 69: the UPDATE of the
\* row found, or the INSERT of a new one, and the COMMIT. An IntegrityError
\* (the key was inserted meanwhile) is caught, rolled back and logged.
\* Either way get_or_fetch returns the fetched payload.
race_store_commit(c) ==
    /\ race[c].pc = "selected"
    /\ LET cache_key == generate_cache_key("serper", race[c].kwargs)
           written  == store_in_cache(mrCache, cache_key, "serper", race[c].kwargs,
                                      race[c].fresh_data, race[c].cache_hours, now)
       IN IF ~race[c].existing /\ unique_violation(mrCache, cache_key)
          THEN UNCHANGED <<mrCache, lastWriter>>
          ELSE /\ mrCache' =
                    IF race[c].existing
                    THEN written
                    ELSE mrCache \cup
                           {[cache_key |-> cache_key, source |-> "serper",
                             query_params |-> race[c].kwargs,
                             response_data |-> race[c].fresh_data,
                             expires_at |-> get_expiry_time(now, race[c].cache_hours),
                             hit_count |-> 0, last_accessed_at |-> now]}
               /\ lastWriter' = {c}
    /\ race' = [race EXCEPT ![c].pc = "done", ![c].ret = race[c].fresh_data]

\* The table the two calls start on: empty, or holding the row of the key
\* stored two hours ago for one hour (expired), or stored just now.
RaceTables ==
    LET key == generate_cache_key("serper", << Item("q", StrV("x")), Item("n", IntV("10")) >>)
        row(at, hours) ==
            store_in_cache({}, key, "serper",
                           << Item("q", StrV("x")), Item("n", IntV("10")) >>,
                           DataA, hours, at)
    IN { {}, row(0, 1), row(2, 1) }

RaceInit ==
    /\ now = 2
    /\ mrCache \in RaceTables
    /\ mrCall = NoDict
    /\ \E args \in [Callers -> CallParams \X CacheHours] :
         race = [c \in Callers |->
                   [pc |-> "start", kwargs |-> args[c][1], cache_hours |-> args[c][2],
                    fetched |-> FALSE, fresh_data |-> NonePayload,
                    existing |-> FALSE, ret |-> NonePayload]]
    /\ lastWriter = {}

InitRace == ReportIdle /\ RaceInit /\ StockIdle /\ TaskIdle /\ PlanIdle /\ LateIdle
NextRace ==
    \/ \E c \in Callers : race_lookup(c) /\ UNCHANGED notRaceVars
    \/ \E c \in Callers : race_fetch_returns(c) /\ UNCHANGED notRaceVars
    \/ \E c \in Callers : race_store_select(c) /\ UNCHANGED notRaceVars
    \/ \E c \in Callers : race_store_commit(c) /\ UNCHANGED notRaceVars
SpecRace == InitRace /\ [][NextRace]_vars

(***************************************************************************)
(* Stock analysis cache                                                    *)
(***************************************************************************)

StockMaxTime == 1
StockMaxHits == 1

\* str.upper() on the symbols used here.
Upper(sym) == CASE sym = "tcs" -> "TCS" [] sym = "TCS" -> "TCS" [] sym = "INFY" -> "INFY"
                   [] sym = "infy" -> "INFY"

SymbolInputs == {"tcs", "INFY"}
DataTypes == {"search_data", "news"}
Queries == {"q1"}
StockData == {"D1", "D2"}
\* max_age_hours: one hour, or the default of 24
MaxAges == {1, 24}
\* expires_hours: None, or a number of hours
ExpiresHours == {{}, {1}}
\* The (symbol, data_type) pairs cache_data is called with.
CachedKeys == {<<"tcs", "search_data">>, <<"INFY", "search_data">>}

\* StockAnalysisDatabaseService._generate_cache_key
stock_generate_cache_key(query, data_type) == sha256(<<query, ":", data_type>>)

\* The row cache_data looks for: symbol, data type and query hash match.
StockRowOf(cache, symbol, query, data_type) ==
    LET match(r) == /\ r.stock_symbol = Upper(symbol)
                    /\ r.data_type = data_type
                    /\ r.query_hash = stock_generate_cache_key(query, data_type)
    IN IF \E r \in cache : match(r) THEN CHOOSE r \in cache : match(r) ELSE NoRow

\* The row get_cached_data selects: the key matches, the row is valid, not
\* expired (or without expiry) and created within max_age_hours.
cache_entry_IgnoreValid(cache, symbol, query, data_type, max_age_hours, t) ==
    LET match(r) == /\ r.stock_symbol = Upper(symbol)
                    /\ r.data_type = data_type
                    /\ r.query_hash = stock_generate_cache_key(query, data_type)
                    /\ (r.expires_at = {} \/ \E e \in r.expires_at : e > t)
                    /\ r.created_at > t - max_age_hours
    IN IF \E r \in cache : match(r) THEN CHOOSE r \in cache : match(r) ELSE NoRow
cache_entry(cache, symbol, query, data_type, max_age_hours, t) ==
    LET match(r) == /\ r.stock_symbol = Upper(symbol)
                    /\ r.data_type = data_type
                    /\ r.query_hash = stock_generate_cache_key(query, data_type)
                    /\ r.is_valid = TRUE
                    /\ (r.expires_at = {} \/ \E e \in r.expires_at : e > t)
                    /\ r.created_at > t - max_age_hours
    IN IF \E r \in cache : match(r) THEN CHOOSE r \in cache : match(r) ELSE NoRow

\* StockAnalysisDatabaseService.get_cached_data
get_cached_data(stock_symbol, query, data_type, max_age_hours) ==
    LET entry == cache_entry(stockCache, stock_symbol, query, data_type,
                             max_age_hours, stockNow)
        call(ret) == [op |-> "get_cached_data", stock_symbol |-> {Upper(stock_symbol)},
                      data_type |-> {data_type}, ret |-> ret]
    IN IF entry # NoRow
       THEN /\ entry.cache_hits < StockMaxHits
            /\ stockCache' = (stockCache \ {entry}) \cup
                  {[entry EXCEPT !.cache_hits = @ + 1, !.last_accessed_at = stockNow]}
            /\ stockCall' = call(entry.cached_data)
       ELSE /\ stockCache' = stockCache
            /\ stockCall' = call(None)

GetCachedData ==
    /\ \E stock_symbol \in SymbolInputs, query \in Queries,
          data_type \in DataTypes, max_age_hours \in MaxAges :
         get_cached_data(stock_symbol, query, data_type, max_age_hours)
    /\ UNCHANGED stockNow

\* StockAnalysisDatabaseService.cache_data
cache_data(stock_symbol, query, data, data_type, expires_hours) ==
    LET query_hash == stock_generate_cache_key(query, data_type)
        expires_at == {stockNow + h : h \in expires_hours}
        existing   == StockRowOf(stockCache, stock_symbol, query, data_type)
    IN /\ IF existing # NoRow
          THEN stockCache' = (stockCache \ {existing}) \cup
                  {[existing EXCEPT !.cached_data = data, !.is_valid = TRUE,
                                    !.expires_at = expires_at,
                                    !.last_accessed_at = stockNow]}
          ELSE stockCache' = stockCache \cup
                  {[stock_symbol |-> Upper(stock_symbol), data_type |-> data_type,
                    query_hash |-> query_hash, cached_data |-> data,
                    is_valid |-> TRUE, cache_hits |-> 0, created_at |-> stockNow,
                    last_accessed_at |-> stockNow, expires_at |-> expires_at]}
       /\ stockCall' = [op |-> "cache_data", stock_symbol |-> {Upper(stock_symbol)},
                        data_type |-> {data_type}, ret |-> data]

CacheData ==
    /\ \E key \in CachedKeys, query \in Queries, data \in StockData,
          expires_hours \in ExpiresHours :
         cache_data(key[1], query, data, key[2], expires_hours)
    /\ UNCHANGED stockNow

\* StockAnalysisDatabaseService.invalidate_cache; an absent filter ({}) matches
\* every row. The column last_accessed_at has onupdate=now(), so a row the
\* call really changes gets it refreshed.
invalidate_cache(stock_symbol, data_type) ==
    LET matches(r) == /\ \A sym \in stock_symbol : r.stock_symbol = Upper(sym)
                      /\ \A dt \in data_type : r.data_type = dt
    IN /\ stockCache' =
            {IF matches(r) /\ r.is_valid
             THEN [r EXCEPT !.is_valid = FALSE, !.last_accessed_at = stockNow]
             ELSE r : r \in stockCache}
       /\ stockCall' = [op |-> "invalidate_cache",
                        stock_symbol |-> {Upper(sym) : sym \in stock_symbol},
                        data_type |-> data_type,
                        ret |-> Cardinality({r \in stockCache : matches(r)})]

InvalidateCache ==
    /\ \E stock_symbol \in {{}} \cup {{sym} : sym \in SymbolInputs},
          data_type \in {{}} \cup {{dt} : dt \in DataTypes} :
         invalidate_cache(stock_symbol, data_type)
    /\ UNCHANGED stockNow

StockTick ==
    /\ stockNow < StockMaxTime
    /\ stockNow' = stockNow + 1
    /\ UNCHANGED <<stockCache, stockCall>>

StockInit == stockCache = {} /\ stockNow = 0 /\ stockCall = NoDict

InitStock == ReportIdle /\ CacheIdle /\ StockInit /\ TaskIdle /\ PlanIdle /\ RaceIdle /\ LateIdle
NextStock ==
    \/ GetCachedData /\ UNCHANGED notStockVars
    \/ CacheData /\ UNCHANGED notStockVars
    \/ InvalidateCache /\ UNCHANGED notStockVars
    \/ StockTick /\ UNCHANGED notStockVars
SpecStock == InitStock /\ [][NextStock]_vars

(***************************************************************************)
(* Concurrent get_cached_data calls, each on its own AsyncSession: the     *)
(* coroutine is suspended at `await db.execute(...)` and at                *)
(* `await db.commit()`, so the calls of other requests run between the     *)
(* select and the commit.                                                  *)
(***************************************************************************)

\* The row cache_data inserts for a key at time t.
cached_row(stock_symbol, query, data, data_type, t) ==
    [stock_symbol |-> Upper(stock_symbol), data_type |-> data_type,
     query_hash |-> stock_generate_cache_key(query, data_type), cached_data |-> data,
     is_valid |-> TRUE, cache_hits |-> 0, created_at |-> t,
     last_accessed_at |-> t, expires_at |-> {}]

\* Primary key identity of two versions of a row.
same_row(r1, r2) ==
    /\ r1.stock_symbol = r2.stock_symbol
    /\ r1.data_type = r2.data_type
    /\ r1.query_hash = r2.query_hash

\* get_cached_data up to the await of the select: the session loads the row
\* (its ORM object holds the column values read), or finds none and the call
\* returns None.
get_cached_data_select(c) ==
    /\ sess[c].pc = "start"
    /\ \E stock_symbol \in SymbolInputs, query \in Queries, max_age_hours \in MaxAges :
         LET entry == cache_entry(stockCache, stock_symbol, query, "search_data",
                                  max_age_hours, stockNow)
         IN sess' = [sess EXCEPT ![c] =
                       IF entry # NoRow
                       THEN [pc |-> "loaded", loaded |-> {entry}, ret |-> None]
                       ELSE [pc |-> "done", loaded |-> {}, ret |-> None]]
    /\ UNCHANGED stockVars

\* get_cached_data, lines 216-222: cache_hits += 1 on the loaded object, then
\* the commit flushes UPDATE ... SET cache_hits = <loaded value + 1>,
\* last_accessed_at = <now> WHERE id = <the row>.
get_cached_data_commit(c) ==
    /\ sess[c].pc = "loaded"
    /\ \E entry \in sess[c].loaded :
         /\ stockCache' = {IF same_row(r, entry)
                           THEN [r EXCEPT !.cache_hits = entry.cache_hits + 1,
                                          !.last_accessed_at = stockNow]
                           ELSE r : r \in stockCache}
         /\ sess' = [sess EXCEPT ![c] = [@ EXCEPT !.pc = "done",
                                                  !.ret = entry.cached_data]]
    /\ UNCHANGED <<stockNow, stockCall>>

\* The hour passes while calls are in flight.
SessTick ==
    /\ stockNow < StockMaxTime
    /\ stockNow' = stockNow + 1
    /\ UNCHANGED <<stockCache, stockCall, sess>>

\* The table holds rows cache_data has written (no hit counted yet) and
\* every caller is about to call.
SessInit ==
    /\ \E keys \in SUBSET SymbolInputs, data \in StockData :
         stockCache = {cached_row(sym, "q1", data, "search_data", 0) : sym \in keys}
    /\ stockNow = 0
    /\ stockCall = NoDict
    /\ sess = [c \in Callers |-> [pc |-> "start", loaded |-> {}, ret |-> None]]
    /\ hitHigh = 0 /\ RunsIdle /\ design_log = <<>>

notSessVars == <<reportVars, cacheVars, taskVars, planVars, raceVars, hitHigh, runs, heap, memory_saver,
                design_log>>
InitSess == ReportIdle /\ CacheIdle /\ TaskIdle /\ PlanIdle /\ RaceIdle /\ SessInit
NextSess ==
    \/ \E c \in Callers : get_cached_data_select(c) /\ UNCHANGED notSessVars
    \/ \E c \in Callers : get_cached_data_commit(c) /\ UNCHANGED notSessVars
    \/ SessTick /\ UNCHANGED notSessVars
SpecSess == InitSess /\ [][NextSess]_vars

(***************************************************************************)
(* Concurrent run_analysis calls on the stock_analysis_service singleton:  *)
(* the compiled graph and its MemorySaver are shared, the supersteps of    *)
(* the runs interleave at every await. Python lists are objects: a state   *)
(* holds a reference into `heap`, and draft_sections_node appends to the   *)
(* list object in place.                                                   *)
(***************************************************************************)

Runs == {"r1", "r2"}
ThreadIds == {"u1", "u2"}

\* The question each run is called with.
run_question(r) == IF r = "r1" THEN "Q1" ELSE "Q2"

\* What the backend drafts for a run: a section about the run's question
\* (its prompt holds only the run's plan, data and draft), or the marker.
RunDraftOutputs(r) == {<<run_question(r)>>, MarkerOnly}

\* uuid.uuid4(): a value no earlier call returned.
uuid4(used) == ThreadIds \ used

\* The list display `[]` in initial_state: a new list object per evaluation.
new_list_Shared(h) == 1
new_list(h) == Len(h) + 1

\* The state with its list reference replaced by the list's content.
deref(st, h) == [st EXCEPT !.drafted_sections = h[st.drafted_sections]]

started(r) == runs[r].pc # "idle"

\* run_analysis, lines 357-384: thread id, config and initial_state.
run_analysis_start(r) ==
    /\ runs[r].pc = "idle"
    /\ \E thread_id \in uuid4(UNION {runs[o].thread_id : o \in Runs}) :
         LET ref == new_list(heap)
             h   == IF ref \in DOMAIN heap THEN heap ELSE Append(heap, <<>>)
             st  == [initial_state(run_question(r)) EXCEPT !.drafted_sections = ref]
         IN /\ heap' = h
            /\ runs' = [runs EXCEPT ![r] =
                          [pc |-> "research_plan", step |-> 0, thread_id |-> {thread_id},
                           state |-> st, full_draft |-> <<>>]]
            /\ memory_saver' = [memory_saver EXCEPT ![thread_id] = {deref(st, h)}]

\* One superstep of run r on the shared graph: the update is merged into the
\* run's state, the checkpoint of the run's thread is saved.
RunSuperstep(r, node, upd, h, draft) ==
    /\ runs[r].pc = node
    /\ runs[r].step < recursion_limit
    /\ LET st == Merge(runs[r].state, upd)
       IN /\ runs' = [runs EXCEPT ![r] =
                        [@ EXCEPT !.state = st, !.step = @ + 1, !.full_draft = draft,
                                  !.pc = NextNode(node, deref(st, h))]]
          /\ memory_saver' = [t \in DOMAIN memory_saver |->
                                IF t \in runs[r].thread_id THEN {deref(st, h)}
                                ELSE memory_saver[t]]
    /\ heap' = h

\* research_plan_node and fetch_data_node with a backend that answers (their
\* failure branches, which touch neither list nor thread, are in SpecReport).
run_research_plan_node(r) ==
    RunSuperstep(r, "research_plan",
        [analysis_plan |-> "PLAN", model_name |-> "gpt-4o-mini"],
        heap, runs[r].full_draft)

run_fetch_data_node(r) ==
    RunSuperstep(r, "fetch_data", [research_data |-> "DATA"],
        heap, runs[r].full_draft)

\* draft_sections_node: drafted_sections = state.get("drafted_sections", []);
\* drafted_sections.append(new_section); return {"drafted_sections": ...}
run_draft_sections_node(r) ==
    LET drafted_sections == runs[r].state.drafted_sections
    IN \/ \E new_section \in RunDraftOutputs(r) :
            RunSuperstep(r, "draft_sections",
                [drafted_sections |-> drafted_sections],
                [heap EXCEPT ![drafted_sections] = Append(@, new_section)],
                runs[r].full_draft)
       \/ RunSuperstep(r, "draft_sections", [error |-> "Failed to draft section"],
                       heap, runs[r].full_draft)

run_assemble_report_node(r) ==
    \E ok \in BOOLEAN :
        RunSuperstep(r, "assemble_report",
            IF ok THEN [final_report |-> "REPORT"]
                  ELSE [error |-> "Failed to compile final report"],
            heap,
            JoinSections(clean_drafted_sections(heap[runs[r].state.drafted_sections])))

\* run_analysis returns: the stream ended at END, or the graph raised
\* GraphRecursionError at the recursion limit.
run_returns(r) ==
    /\ \/ runs[r].pc = "END"
       \/ /\ runs[r].pc \in {"research_plan", "fetch_data", "draft_sections",
                              "assemble_report"}
          /\ runs[r].step >= recursion_limit
    /\ runs' = [runs EXCEPT ![r] = [@ EXCEPT !.pc = "returned"]]
    /\ UNCHANGED <<heap, memory_saver>>

RunsInit ==
    /\ runs = [r \in Runs |-> [pc |-> "idle", step |-> 0, thread_id |-> {},
                               state |-> NoDict, full_draft |-> <<>>]]
    /\ heap = <<>>
    /\ memory_saver = [t \in ThreadIds |-> {}]
    /\ hitHigh = 0 /\ sess = NoDict /\ design_log = <<>>

notRunsVars == <<reportVars, cacheVars, stockVars, taskVars, planVars, raceVars,
                 hitHigh, sess, design_log>>
InitRuns == ReportIdle /\ CacheIdle /\ StockIdle /\ TaskIdle /\ PlanIdle /\ RaceIdle /\ RunsInit
NextRuns ==
    \/ \E r \in Runs : run_analysis_start(r) /\ UNCHANGED notRunsVars
    \/ \E r \in Runs : run_research_plan_node(r) /\ UNCHANGED notRunsVars
    \/ \E r \in Runs : run_fetch_data_node(r) /\ UNCHANGED notRunsVars
    \/ \E r \in Runs : run_draft_sections_node(r) /\ UNCHANGED notRunsVars
    \/ \E r \in Runs : run_assemble_report_node(r) /\ UNCHANGED notRunsVars
    \/ \E r \in Runs : run_returns(r) /\ UNCHANGED notRunsVars
SpecRuns == InitRuns /\ [][NextRuns]_vars

(***************************************************************************)
(* Claims about the report workflow (checked under SpecReport)             *)
(***************************************************************************)

Last(s) == s[Len(s)]
Executed(node) == \E i \in 1..Len(trace) : trace[i] = node
DraftCount == Cardinality({i \in 1..Len(trace) : trace[i] = "draft_sections"})
MarkerEmitted ==
    \E i \in 1..Len(state.drafted_sections) :
        Carries(state.drafted_sections[i], PLAN_COMPLETE)
MarkerIsLatest ==
    /\ state.drafted_sections # <<>>
    /\ Carries(Last(state.drafted_sections), PLAN_COMPLETE)
CapReachedWithoutSignal ==
    /\ pc = "returned"
    /\ step = recursion_limit
    /\ ~MarkerEmitted

\* C1: the drafting loop terminates within the iteration cap whatever the
\* backend answers: a run never executes more than MAX_SECTIONS + 4 stages
\* (so at most MAX_SECTIONS + 2 drafting stages), and as long as run_analysis
\* has not returned some step of it can still be taken.
C1_DraftingLoopBounded ==
    /\ step <= MAX_SECTIONS + 4
    /\ Len(trace) = step
    /\ DraftCount <= MAX_SECTIONS + 2
    /\ pc # "returned" => ENABLED ReportNext

C1_Witness ==
    /\ CapReachedWithoutSignal
    /\ DraftCount = MAX_SECTIONS + 2
    /\ result.error = "Analysis workflow failed"

\* C2: when the iteration cap is reached without the termination signal, the
\* run is forced into assemble_report and run_analysis returns a final_report.
C2_CapForcesAssembly ==
    CapReachedWithoutSignal =>
        /\ Executed("assemble_report")
        /\ Get(result, "final_report") \notin {None, ""}

\* The stage that writes a given error message.
StageOfError(msg) ==
    CASE msg = "Failed to generate research plan" -> "research_plan"
      [] msg = "Failed to fetch data"             -> "fetch_data"
      [] msg = "Failed to draft section"          -> "draft_sections"
      [] msg = "Failed to compile final report"   -> "assemble_report"

\* C3: when a required stage fails, the error field is set and the run halts
\* immediately: no stage is executed after the failing one, so the stage that
\* wrote the error is the last stage executed.
C3_ErrorHaltsRun ==
    state.error # "" => Last(trace) = StageOfError(state.error)

\* C4: the stages run in the order research_plan, fetch_data, one or more
\* draft_sections, assemble_report, END: the run starts at research_plan,
\* fetch_data comes second, assemble_report runs at most once, last, and right
\* after a draft_sections execution, and END is reached only from
\* assemble_report.
C4_StageOrder ==
    /\ step = 0 => pc = "research_plan"
    /\ \A i \in 1..Len(trace) :
         /\ trace[i] = "research_plan" <=> i = 1
         /\ trace[i] = "fetch_data" <=> i = 2
         /\ trace[i] = "assemble_report" =>
               /\ i = Len(trace)
               /\ i >= 4
               /\ trace[i - 1] = "draft_sections"
         /\ i >= 3 => trace[i] \in {"draft_sections", "assemble_report"}
    /\ pc = "END" => (trace # <<>> /\ Last(trace) = "assemble_report")
    /\ Executed("assemble_report") => pc \in {"END", "returned"}

C4_Witness ==
    /\ pc = "END"
    /\ DraftCount >= 2
    /\ Last(trace) = "assemble_report"

\* C5: once the termination marker is the most recent drafted fragment the
\* router chooses assemble_report and draft_sections never runs again (no
\* fragment is ever drafted after a marker fragment); while the latest
\* fragment carries no marker the router chooses draft_sections.
C5_MarkerExitsLoop ==
    /\ MarkerIsLatest => pc \in {"assemble_report", "END", "returned"}
    /\ \A i \in 1..Len(state.drafted_sections) :
         Carries(state.drafted_sections[i], PLAN_COMPLETE) =>
             i = Len(state.drafted_sections)
    /\ (Executed("draft_sections") /\ ~MarkerIsLatest) =>
         /\ pc \in {"draft_sections", "returned"}
         /\ ~Executed("assemble_report")

C5_Witness ==
    /\ MarkerIsLatest
    /\ Last(state.drafted_sections) = MarkerEmbedded
    /\ Len(state.drafted_sections) >= 3
    /\ pc = "assemble_report"

\* C6: the termination marker is stripped before assembly: the drafted
\* content handed to the assembler carries no PLAN_COMPLETE.
C6_MarkerStripped ==
    Executed("assemble_report") => ~Carries(full_draft, PLAN_COMPLETE)

(***************************************************************************)
(* Claims about the market research cache (checked under SpecCache)        *)
(***************************************************************************)

Called == mrCall # NoDict

\* C7: parameter sets that are equal as mappings but constructed in different
\* key orders give, for the same source, the same cache key, so the table
\* never holds two rows for one logical query; a different source or a
\* different parameter value gives a different key string.
C7_KeyOrderIndependent ==
    /\ \A r1 \in mrCache, r2 \in mrCache :
         (r1.source = r2.source /\ SameMapping(r1.query_params, r2.query_params))
            => r1 = r2
    /\ Called =>
         /\ \A p \in ParamInputs :
              SameMapping(p, mrCall.kwargs) =>
                  generate_cache_key(mrCall.source, p) = mrCall.cache_key
         /\ \A s \in Sources, p \in ParamInputs :
              (s # mrCall.source \/ ~SameMapping(p, mrCall.kwargs)) =>
                  /\ key_string(s, p) # key_string(mrCall.source, mrCall.kwargs)
                  /\ generate_cache_key(s, p) # mrCall.cache_key

\* A call that was served from the row another construction order stored.
C7_Witness ==
    /\ Called
    /\ ~mrCall.fetch_invoked
    /\ mrCall.before # NoRow
    /\ mrCall.before.query_params # mrCall.kwargs
    /\ SameMapping(mrCall.before.query_params, mrCall.kwargs)

\* The call found a row of its key that a successful fetch had stored and
\* that was still inside its TTL window.
CallInsideTTL ==
    /\ Called
    /\ mrCall.before # NoRow
    /\ mrCall.before.expires_at > mrCall.at

\* C8: a get_or_fetch for a (source, params) stored by an earlier successful
\* fetch, inside the TTL window and whatever payload was stored, does not
\* invoke its fetch function, returns the stored payload and increments the
\* hit count by exactly one.
C8_SecondCallIsHit ==
    CallInsideTTL =>
        /\ ~mrCall.fetch_invoked
        /\ mrCall.ret = mrCall.before.response_data
        /\ mrCall.after.hit_count = mrCall.before.hit_count + 1

\* C10: a get_or_fetch whose fetch function fails returns the empty payload
\* and leaves the row of its key as it was, and no error payload of a failed
\* source call is ever stored in the cache.
C10_FailedFetchNotPersisted ==
    /\ (Called /\ mrCall.fetch_invoked /\ mrCall.fetch_failed) =>
          /\ mrCall.ret = EmptyPayload
          /\ mrCall.after = mrCall.before
    /\ \A r \in mrCache : ~IsErrorPayload(r.response_data)

(***************************************************************************)
(* Claims about the stock analysis cache (checked under SpecStock)         *)
(***************************************************************************)

\* The invalidation recorded in stockCall covers the given symbol and type.
Covers(call, symbol, data_type) ==
    /\ \A sym \in call.stock_symbol : sym = Upper(symbol)
    /\ \A dt \in call.data_type : dt = data_type

StockCalled(op) == stockCall # NoDict /\ stockCall.op = op

IsPrefix(s, t) == Len(s) <= Len(t) /\ SubSeq(t, 1, Len(s)) = s
RECURSIVE Flatten(_)
Flatten(frags) == IF frags = <<>> THEN <<>> ELSE frags[1] \o Flatten(Tail(frags))
WithoutSeparators(text) == SelectSeq(text, LAMBDA tok : tok # "\n\n")
NonMarkerFragments(frags) == SelectSeq(frags, LAMBDA s : s # MarkerOnly)

\* C16: drafted fragments accumulate and are assembled in strict append
\* order: every step leaves the old drafted_sections a prefix of the new one,
\* and once the assembler has run, the text it was given is the fragments
\* other than the bare marker, in drafting order, each exactly once, with
\* one separator between neighbours.
C16_AppendOrder ==
    [][ /\ IsPrefix(state.drafted_sections, state'.drafted_sections)
        /\ Len(state'.drafted_sections) <= Len(state.drafted_sections) + 1
        /\ (pc = "assemble_report" /\ pc' = "END") =>
              LET kept == NonMarkerFragments(state.drafted_sections)
              IN /\ WithoutSeparators(full_draft') = Flatten(kept)
                 /\ kept # <<>> => Len(full_draft') = Len(Flatten(kept)) + Len(kept) - 1
      ]_vars

\* A run in which two different sections were drafted before the marker, and
\* the assembler has been given the draft.
C16_Witness ==
    /\ Executed("assemble_report")
    /\ state.drafted_sections = << <<"S1">>, <<"S2">>, MarkerOnly >>
    /\ full_draft = <<"S1", "\n\n", "S2">>

\* C17: on a run in which every stage succeeded, run_analysis returns the
\* question, the plan of the plan stage, the evidence of the fetch stage, the
\* final report of the assembly stage and the model name.
AllStagesSucceeded ==
    /\ pc = "returned"
    /\ Executed("assemble_report")
    /\ state.error = ""
    /\ state.final_report # ""
C17_SuccessfulRunReturnsAll ==
    AllStagesSucceeded =>
        /\ Get(result, "question") = state.user_question
        /\ Get(result, "analysis_plan") = state.analysis_plan
        /\ Get(result, "research_data") = state.research_data
        /\ Get(result, "final_report") = state.final_report
        /\ Get(result, "model") = state.model_name

(***************************************************************************)
(* Further claims about the caches (SpecCache, SpecStock)                  *)
(***************************************************************************)

\* C15: invalidation is a soft delete and no cache operation ever destroys a
\* historical row: a row that is in the market_research_cache table before a
\* step of the cache service is still in it, under the same key, afterwards.
C15_NoRowDestroyed ==
    [][\A r \in mrCache : \E kept \in mrCache' : kept.cache_key = r.cache_key]_vars

\* C14: a valid, unexpired cache entry is returned before any live external
\* call is attempted: no call reaches the provider for a query whose row
\* holds a payload and has not expired.
C14_CacheBeforeLiveCall ==
    (Called /\ mrCall.fetch_invoked) =>
        ~(/\ mrCall.before # NoRow
          /\ mrCall.before.expires_at > mrCall.at
          /\ Truthy(mrCall.before.response_data))

(***************************************************************************)
(* Claims about the background task (checked under SpecTask)               *)
(***************************************************************************)

\* run_analysis has returned a dict whose error field is a non-empty text.
NonEmptyErrorField ==
    /\ pc = "returned"
    /\ "error" \in DOMAIN result
    /\ result.error # None
    /\ result.error # ""

\* C13: in run_analysis_workflow a non-empty error field returned by
\* run_analysis never leads to status COMPLETED; the task that has finished
\* its updates leaves the record FAILED with the returned error message
\* stored; and an exception raised inside the task's try block is turned into
\* status FAILED with its text stored, leaving the task only when the update
\* of the except branch itself raised.
C13_ErrorMapsToFailed ==
    /\ analysis.analysis_status = COMPLETED =>
          ~NonEmptyErrorField
    /\ NonEmptyErrorField =>
          /\ analysis.analysis_status # COMPLETED
          /\ (taskPc = "done" /\ taskExc = None) =>
                /\ analysis.analysis_status = FAILED
                /\ analysis.error_message = result.error
    /\ (taskPc = "done" /\ taskExc # None) =>
          /\ analysis.analysis_status = FAILED
          /\ analysis.error_message = taskExc
    /\ taskPc = "raised" => taskExc # None
    /\ taskPc = "done" => analysis.analysis_status \in {COMPLETED, FAILED}

\* The workflow ran into the recursion limit, run_analysis returned its error
\* and the task stored it.
C13_Witness ==
    /\ taskPc = "done"
    /\ taskExc = None
    /\ result.error = "Analysis workflow failed"
    /\ analysis.analysis_status = FAILED
    /\ analysis.error_message = "Analysis workflow failed"

(***************************************************************************)
(* Claims about the learning plan workflow (checked under SpecPlan)        *)
(***************************************************************************)

ResearchStarted(key) == \E i \in 1..Len(rmStarted) : rmStarted[i] = key

\* C11: when one of the source calls of research_market_trends fails, no
\* exception reaches the caller, the sibling source calls are still performed
\* and the bundle the caller stores has every source key.
C11_SourceFailureIsolated ==
    (rmFailed \cap SourceKeys # {} /\ rmPc \in {"returned", "raised"}) =>
        /\ rmPc = "returned"
        /\ \A key \in SourceKeys : ResearchStarted(key)
        /\ planPc # "research_market" =>
              \A key \in SourceKeys : key \in DOMAIN planState.market_research

\* C12: every value returned by the orchestrator entry points run_analysis
\* and generate_comprehensive_plan carries an error field.
C12_ResultCarriesErrorField ==
    /\ pc = "returned" => "error" \in DOMAIN result
    /\ planPc = "returned" => "error" \in DOMAIN planResult

\* C18: the research aggregation issues all of its source calls concurrently:
\* by the time any source call has come back, every source call has been
\* started.
C18_AllStartedBeforeAnyCompletes ==
    (rmCompleted # <<>> \/ rmFailed # {}) =>
        \A key \in SourceKeys : ResearchStarted(key)

\* C20: every external call carries an explicit timeout.
C20_ExternalCallsHaveTimeout ==
    \A call \in extCall : call.timeout # None

(***************************************************************************)
(* Claims about concurrent cache calls (checked under SpecRace)            *)
(***************************************************************************)

BothDone == \A c \in Callers : race[c].pc = "done"
BothMissed == \A c \in Callers : race[c].fetched

C21_HitCountMonotonic ==
    \A r \in mrCache : r.hit_count >= hitHigh

\* C22: on a miss with a successful fetch get_or_fetch stores the result with
\* expires_at = now + ttl and returns it; an entry is served only while
\* unexpired; and a get_or_fetch that finds the row of its key expired
\* invokes the fetch function again and, when that succeeds, overwrites the
\* row with the new payload and a new expires_at, the table still holding
\* one row for the key.
C22_ExpiryRefetchOverwrites ==
    /\ \A r1 \in mrCache, r2 \in mrCache : r1.cache_key = r2.cache_key => r1 = r2
    /\ Called =>
         /\ (mrCall.fetch_invoked /\ ~mrCall.fetch_failed) =>
               /\ mrCall.after # NoRow
               /\ mrCall.after.cache_key = mrCall.cache_key
               /\ mrCall.after.response_data = mrCall.ret
               /\ mrCall.after.expires_at = mrCall.at + mrCall.cache_hours
               /\ mrCall.before # NoRow =>
                     mrCall.after.hit_count = mrCall.before.hit_count
         /\ ~mrCall.fetch_invoked =>
               /\ mrCall.before # NoRow
               /\ mrCall.before.expires_at > mrCall.at
               /\ mrCall.ret = mrCall.before.response_data
         /\ (mrCall.before # NoRow /\ mrCall.before.expires_at <= mrCall.at) =>
               mrCall.fetch_invoked

\* A call found the row of its key expired, fetched a different payload and
\* overwrote the row.
C22_Witness ==
    /\ Called
    /\ mrCall.before # NoRow
    /\ mrCall.before.expires_at < mrCall.at
    /\ mrCall.fetch_invoked
    /\ ~mrCall.fetch_failed
    /\ mrCall.after.response_data # mrCall.before.response_data
    /\ mrCall.after.expires_at > mrCall.at
    /\ Cardinality(mrCache) = 1

\* C23: a cache entry is refreshed by a rewrite: once cache_data has written
\* the row of a symbol, query and data type, a get_cached_data for them made
\* at once (before the new expiry), with whichever maximum age, selects the
\* row and returns the data just written.
C23_RewriteRefreshes ==
    (/\ StockCalled("cache_data")
     /\ \E r \in stockCache : /\ r.stock_symbol \in stockCall.stock_symbol
                              /\ r.data_type \in stockCall.data_type
                              /\ r.last_accessed_at = stockNow) =>
        \A symbol \in stockCall.stock_symbol, data_type \in stockCall.data_type,
           query \in Queries, max_age_hours \in MaxAges :
             LET entry == cache_entry(stockCache, symbol, query, data_type,
                                      max_age_hours, stockNow)
             IN /\ entry # NoRow
                /\ entry.cached_data = stockCall.ret

(***************************************************************************)
(* Further claims about the background task (SpecTask)                     *)
(***************************************************************************)

\* C24: an analysis record is marked COMPLETED only if no stage of its run
\* recorded an error and the stored final_report is non-empty.
C24_CompletedMeansNoStageError ==
    analysis.analysis_status = COMPLETED =>
        /\ state.error = ""
        /\ analysis.final_report \notin {None, ""}

(***************************************************************************)
(* Claims about concurrent callers (SpecSess, SpecRuns)                    *)
(***************************************************************************)

\* The calls that have returned a hit on row r.
HitsOn(r) ==
    {c \in Callers : /\ sess[c].pc = "done"
                     /\ \E entry \in sess[c].loaded : same_row(entry, r)}

\* C25: hit accounting is exact under interleaving: the hit counter of an
\* entry (0 when it was written) equals the number of get_cached_data calls
\* that have returned a hit on it, so that N concurrent hits leave it N higher.
C25_HitAccountingExact ==
    \A r \in stockCache : r.cache_hits = Cardinality(HitsOn(r))

\* The fragments a run may hold: sections about its own question, the marker.
OwnFragments(r, frags) ==
    \A i \in 1..Len(frags) : frags[i] \in RunDraftOutputs(r)

\* C26: concurrent report runs on the shared service are isolated: two
\* started runs have different thread ids and different drafted_sections
\* list objects, and whatever the interleaving of their stages the
\* drafted_sections of a run, the checkpoint of its thread and the draft
\* handed to its assembler hold only fragments drafted in that run.
C26_RunsIsolated ==
    /\ \A r1 \in Runs, r2 \in Runs :
         (r1 # r2 /\ started(r1) /\ started(r2)) =>
             /\ runs[r1].thread_id \cap runs[r2].thread_id = {}
             /\ runs[r1].state.drafted_sections # runs[r2].state.drafted_sections
    /\ \A r \in Runs :
         started(r) =>
             /\ OwnFragments(r, heap[runs[r].state.drafted_sections])
             /\ \A t \in runs[r].thread_id : \A cp \in memory_saver[t] :
                    /\ cp.user_question = run_question(r)
                    /\ OwnFragments(r, cp.drafted_sections)
             /\ \A o \in Runs \ {r} : ~Carries(runs[r].full_draft, run_question(o))

\* Two runs whose drafting stages interleaved: the first has drafted two
\* sections and been assembled while the second, started before the first
\* finished drafting, holds one section and is still drafting.
C26_Witness ==
    /\ runs["r1"].pc = "END"
    /\ runs["r1"].full_draft = <<"Q1", "\n\n", "Q1">>
    /\ runs["r2"].pc = "draft_sections"
    /\ runs["r2"].step = 3
    /\ heap[runs["r2"].state.drafted_sections] = << <<"Q2">> >>

(***************************************************************************)
(* Further claims about the report workflow (SpecReport)                   *)
(***************************************************************************)

\* Every drafting call so far has answered, and the answers before the latest
\* one were at most MAX_SECTIONS sections.
WellBehavedBackend ==
    /\ DraftCount = Len(state.drafted_sections)
    /\ Len(state.drafted_sections) <= MAX_SECTIONS + 1
    /\ Len(state.drafted_sections) = MAX_SECTIONS + 1 => MarkerIsLatest

YieldsModules(response) == ~response.raised /\ response.modules # <<>>

\* C28: the curriculum-design retry loop makes at most 3 attempts, stops at
\* the first attempt that yields a non-empty modules list and stores exactly
\* that list; when no attempt yields modules (each raised or returned an
\* empty list) it has made 3 attempts and the node returns, without raising,
\* with learning_modules the empty list.
C28_RetryLoop ==
    /\ planPc = "design_curriculum" => design_log = <<>>
    /\ design_log # <<>> =>
         /\ Len(design_log) <= 3
         /\ \A i \in 1..(Len(design_log) - 1) : ~YieldsModules(design_log[i])
         /\ planPc = "curate_resources" =>
               IF YieldsModules(design_log[Len(design_log)])
               THEN planState.learning_modules = design_log[Len(design_log)].modules
               ELSE /\ Len(design_log) = 3
                    /\ planState.learning_modules = <<>>
    /\ (planPc \in {"curate_resources", "generate_projects", "plan_timeline",
                    "assemble_plan", "END", "returned"}) => design_log # <<>>

\* The first call raised, the second answered without modules, the third
\* answered with a module, which the node stored.
C28_Witness ==
    /\ planPc = "curate_resources"
    /\ design_log = <<LLMRaised, Response(<<>>), Response(<<GoodModule>>)>>
    /\ planState.learning_modules = <<GoodModule>>

\* The positions of a plan run in which every stage ran, in order.
PlanOrder ==
    <<"research_market", "analyze_gaps", "define_objectives", "design_curriculum",
      "curate_resources", "generate_projects", "plan_timeline", "assemble_plan",
      "END", "returned">>
Follows(from, to) ==
    \E i \in 1..(Len(PlanOrder) - 1) : PlanOrder[i] = from /\ PlanOrder[i + 1] = to

\* Every call so far has failed or has answered in the shape asked for:
\* modules and projects are objects, a module has topics.
WellFormedAnswers ==
    /\ \A i \in 1..Len(planState.learning_modules) :
          /\ planState.learning_modules[i].kind = "dict"
          /\ planState.learning_modules[i].topics # <<>>
    /\ \A i \in 1..Len(planState.project_ideas) :
          planState.project_ideas[i].kind = "dict"

\* C29: the learning-plan workflow degrades instead of failing: whichever
\* of its backend and research calls fail, the run moves through the eight
\* stages one after the other in the fixed order, each once, no stage
\* raises, and generate_comprehensive_plan returns the assembled plan
\* dictionary.
C29_DegradesInOrder ==
    [][ WellFormedAnswers' =>
          /\ planPc' # planPc => Follows(planPc, planPc')
          /\ planPc' = "returned" =>
                /\ planResult' # NoDict
                /\ planResult' = planState.learning_plan
                /\ planResult'.learning_modules = planState.learning_modules
      ]_vars

\* Every call failed: the research raised, the gap analysis fell back to the
\* weaknesses, the objectives call and the three curriculum calls raised,
\* no project came back; the plan was still assembled and returned.
C29_Witness ==
    /\ planPc = "returned"
    /\ planState.error = "Market research failed"
    /\ planState.priority_skills = <<"weakness">>
    /\ design_log = <<LLMRaised, LLMRaised, LLMRaised>>
    /\ planState.project_ideas = <<>>
    /\ planResult # NoDict
    /\ planResult.learning_modules = <<>>
    /\ planResult.timeline_weeks = PyInt(12)
    /\ planResult.market_research_insights = NoDict

\* The values of timeline_weeks a run holds: in its state, in the plan it
\* assembled and in the plan it returned.
TimelineValues ==
    {planState.timeline_weeks}
    \cup {d.timeline_weeks : d \in {v \in {planState.learning_plan, planResult} :
                                       "timeline_weeks" \in DOMAIN v}}

\* C30: in every reachable state of a learning-plan run, timeline_weeks is
\* an integer between 8 and 16 inclusive, in the state and in the plan.
C30_TimelineWeeksInRange ==
    \A weeks \in TimelineValues :
        /\ weeks.type = "int"
        /\ 2 * 8 <= weeks.halves
        /\ weeks.halves <= 2 * 16

====
